---- MODULE Spec2Model ----
(***************************************************************************)
(* A model of the Java codebase knowledge extractor: the summarizer's      *)
(* retry loop (llm_service.py), the source parser and repository scanner   *)
(* (java_parser.py, repository_scanner.py), the knowledge structurer       *)
(* (knowledge_structurer.py), the vector store writer (vector_store.py),   *)
(* the git cloner (git_cloner.py) and the pipeline driver (main.py).       *)
(*                                                                         *)
(* Each component has its own specification (SpecLLM, SpecScan, ...) over  *)
(* the module's variables; the variables of the other components stay at   *)
(* their initial values.  Spec is the pipeline driver.                     *)
(***************************************************************************)
EXTENDS Integers, Sequences, FiniteSets, TLC

VARIABLES
    log,            \* the process-wide logger: a sequence of [level, text]
    invocations,    \* every self.llm.invoke made so far: [op, subject, attempt, out]
    llm_pc,         \* "idle" | "retry" | "returned" | "raised"
    llm_op,         \* "none" | "class" | "overview"
    llm_subject,    \* the class the request is about ("" for the project)
    attempt,        \* call_with_retry's loop variable
    responses,      \* the backend's outcome on each attempt of this request
    call_result,    \* what call_with_retry returned: None or Some(text)
    llm_ret,        \* what extract_class_summary / extract_project_overview returned
    log_mark,       \* Len(log) when the current request began
    requests,       \* number of extract_* calls made so far
    tree,           \* the files os.walk(repo_path) yields, in its order
    scan_pc,        \* "off" | "idle" | "parsing" | "returned" | "raised"
    all_files,      \* scan's all_files (indices into tree)
    java_files,     \* scan's java_files (paths of the selected files)
    scan_idx,       \* position of scan's parse loop in java_files
    parsed_files,   \* scan's parsed_files
    parse_calls,    \* every parse_java_file call made: [path, raised, result]
    scan_exc,       \* the exception that left scan, or None
    stats,          \* what get_statistics(parsed_files) returned, or None
    sk_pc,          \* structure_knowledge: "off" | "idle" | "overview" | "classes" | "done" | "raised"
    sk_input,       \* its argument parsed_files
    project_overview, \* its local project_overview
    class_summaries,  \* _process_classes' class_summaries
    sk_idx,         \* position of _process_classes' loop in all_classes
    report,         \* the structured_knowledge returned, or None
    first_call,     \* when structure_knowledge is called again on the same input:
                    \* the report of the first call and the number of its invocations
    index,          \* the vector index: a sequence of [text, metadata]
    store_pc,       \* store_knowledge: "idle" | "overview" | "classes" | "interfaces" | "done" | "raised"
    store_input,    \* its argument structured_knowledge
    store_i,        \* position of the _store_classes / _store_interfaces loop
    index_mark,     \* Len(index) when the current store_knowledge call began
    failed_writes,  \* the entries of this call whose add_texts raised (positions)
    store_calls,    \* number of store_knowledge calls made so far
    target_dir,     \* what is at GitCloner.target_dir on disk
    clone_pc,       \* clone_repository: "idle" | "returned" | "raised" | "done"
    clone_exc,      \* the exception that left clone_repository, or None
    runs,           \* number of runs of main started so far
    pc,             \* main's position: "validate" | "clone" | "init" | "scan" |
                    \* "structure" | "store" | "dump" | "summary" | "exited"
    exit_code,      \* the process's exit code: None while it runs, else Some(n)
    config,         \* Config: api_key, repo_url, git_token, force
    artifact,       \* the file at Config.OUTPUT_FILE
    main_exc        \* the exception that ended main's try body, or None

llmVars == <<invocations, llm_pc, llm_op, llm_subject, attempt, responses,
             call_result, llm_ret, log_mark, requests>>

scanVars == <<tree, scan_pc, all_files, java_files, scan_idx, parsed_files,
              parse_calls, scan_exc, stats>>

structVars == <<sk_pc, sk_input, project_overview, class_summaries, sk_idx, report,
                first_call>>

storeVars == <<index, store_pc, store_input, store_i, index_mark, failed_writes,
               store_calls>>

cloneVars == <<target_dir, clone_pc, clone_exc, runs>>

mainVars == <<pc, exit_code, config, artifact, main_exc>>

vars == <<log, llmVars, scanVars, structVars, storeVars, cloneVars, mainVars>>

\* What the actions of one component leave alone.
notLLM == <<scanVars, structVars, storeVars, cloneVars, mainVars>>
notScan == <<llmVars, structVars, storeVars, cloneVars, mainVars>>
notStruct == <<scanVars, storeVars, cloneVars, mainVars>>
notStore == <<llmVars, scanVars, structVars, cloneVars, mainVars>>
notClone == <<llmVars, scanVars, structVars, storeVars>>

(***************************************************************************)
(* Bounds of the model.                                                    *)
(***************************************************************************)
MaxRequests == 2
MaxFiles == 3
MaxParsed == 2
MaxStores == 2
MaxRuns == 2
MaxClasses == 2

(***************************************************************************)
(* Python values.                                                          *)
(***************************************************************************)
None == <<>>
Some(v) == <<v>>

\* bool(v) for an Optional[str]: None and "" are falsy.
Truthy(v) == v # None /\ v[1] # ""

\* `a or b` on an Optional[str] a and a str b.
PyOr(a, b) == IF Truthy(a) THEN a[1] ELSE b

\* str(n) for the small numbers that appear in messages.
ToStr(n) == IF n = 0 THEN "0" ELSE <<"1", "2", "3", "4", "5", "6", "7", "8", "9">>[n]

LogRec(level, text) == [level |-> level, text |-> text]

(***************************************************************************)
(* llm_service.py                                                          *)
(***************************************************************************)
MAX_RETRIES == 3

\* The texts the backend may answer with (response.content).
BackendTexts == {"", "text A", "text B"}

\* What one self.llm.invoke can do: answer, raise an Exception, or be cut
\* short by KeyboardInterrupt (a BaseException, not an Exception).
BackendOutcomes ==
    [kind : {"content"}, text : BackendTexts]
        \cup {[kind |-> "error", text |-> ""], [kind |-> "interrupt", text |-> ""]}

ClassNames == {"Foo", "Baz"}

Fallback(op) == IF op = "class" THEN "Summary unavailable" ELSE "Overview unavailable"

IsLastAttempt_NeverLast(a) == a = MAX_RETRIES

\* `if attempt == max_retries - 1`
IsLastAttempt(a) == a = MAX_RETRIES - 1

\* Entering call_with_retry from extract_class_summary / extract_project_overview.
LLMBegin(op, subject) ==
    /\ llm_pc' = "retry"
    /\ llm_op' = op
    /\ llm_subject' = subject
    /\ attempt' = 0
    /\ responses' = <<>>
    /\ call_result' = None
    /\ llm_ret' = ""
    /\ log_mark' = Len(log)
    /\ requests' = requests + 1

LLMReturn_KeepsLooping(r) ==
    /\ call_result' = r
    /\ llm_ret' = PyOr(r, Fallback(llm_op))
    /\ llm_pc' = "retry"

\* call_with_retry returns r; the caller's `or` substitutes the fallback.
LLMReturn(r) ==
    /\ call_result' = r
    /\ llm_ret' = PyOr(r, Fallback(llm_op))
    /\ llm_pc' = "returned"

\* One pass through the body of `for attempt in range(max_retries)`, with the
\* return that follows when the pass ends the call.
LLMAttempt ==
    /\ llm_pc = "retry"
    /\ attempt < MAX_RETRIES
    /\ \E out \in BackendOutcomes :
        /\ invocations' = Append(invocations,
                [op |-> llm_op, subject |-> llm_subject, attempt |-> attempt, out |-> out])
        /\ responses' = Append(responses, out)
        /\ CASE out.kind = "content" ->
                    /\ LLMReturn(Some(out.text))
                    /\ UNCHANGED <<attempt, log>>
             [] out.kind = "interrupt" ->
                    /\ llm_pc' = "raised"
                    /\ UNCHANGED <<attempt, log, call_result, llm_ret>>
             [] out.kind = "error" ->
                    LET warned == Append(log, LogRec("WARNING",
                                    <<"LLM call attempt", ToStr(attempt + 1), "failed">>))
                    IN  IF IsLastAttempt(attempt)
                        THEN /\ log' = Append(warned, LogRec("ERROR",
                                    <<"All", ToStr(MAX_RETRIES), "attempts failed">>))
                             /\ LLMReturn(None)
                             /\ UNCHANGED attempt
                        ELSE IF attempt + 1 < MAX_RETRIES
                        THEN /\ log' = warned
                             /\ attempt' = attempt + 1
                             /\ UNCHANGED <<llm_pc, call_result, llm_ret>>
                        ELSE \* the loop is exhausted: the trailing `return None`
                             /\ log' = warned
                             /\ attempt' = attempt + 1
                             /\ LLMReturn(None)
    /\ UNCHANGED <<llm_op, llm_subject, log_mark, requests>>
    /\ UNCHANGED notLLM

\* extract_class_summary(class_info), up to its call of call_with_retry.
ExtractClassSummary ==
    /\ llm_pc \in {"idle", "returned"}
    /\ requests < MaxRequests
    /\ \E c \in ClassNames : LLMBegin("class", c)
    /\ UNCHANGED <<log, invocations>>
    /\ UNCHANGED notLLM

\* extract_project_overview(all_classes, packages), up to its call of call_with_retry.
ExtractProjectOverview ==
    /\ llm_pc \in {"idle", "returned"}
    /\ requests < MaxRequests
    /\ LLMBegin("overview", "")
    /\ UNCHANGED <<log, invocations>>
    /\ UNCHANGED notLLM

LLMIdle ==
    /\ invocations = <<>>
    /\ llm_pc = "idle"
    /\ llm_op = "none"
    /\ llm_subject = ""
    /\ attempt = 0
    /\ responses = <<>>
    /\ call_result = None
    /\ llm_ret = ""
    /\ log_mark = 0
    /\ requests = 0


(***************************************************************************)
(* java_parser.py                                                          *)
(***************************************************************************)

\* The javalang nodes of the method bodies at hand.  A node carries its
\* attributes under their javalang names; every Primary (a member reference, a
\* literal, a call) has prefix_operators, postfix_operators, qualifier and
\* selectors besides its own.
MemberReference(member) == [node |-> "MemberReference", member |-> member]

BinaryOperation(operator, operandl, operandr) ==
    [node |-> "BinaryOperation", operator |-> operator,
     operandl |-> operandl, operandr |-> operandr]

ReturnStatement == [node |-> "ReturnStatement"]

StatementExpression(expression) == [node |-> "StatementExpression", expression |-> expression]

IfStatement(condition, then_statement) ==
    [node |-> "IfStatement", condition |-> condition, then_statement |-> then_statement]

\* `if (ready) start;` and `if (a && b) return;`
IfReady == IfStatement(MemberReference("ready"), StatementExpression(MemberReference("start")))
IfBoth ==
    IfStatement(BinaryOperation("&&", MemberReference("a"), MemberReference("b")),
                ReturnStatement)

\* A method declaration node: its name and its body (None for a method
\* without a body, else the list of its statements).
MethodNode(name, body) == [name |-> name, body |-> body]

\* A class or interface declaration node.  parent is the position, in the
\* compilation unit's pre-order list of declarations, of the declaration that
\* directly contains it (0 at top level).  extends holds the superclass (at most
\* one) of a class, the super-interfaces of an interface.
DeclNode(kind, name, parent, extends, implements, methods, nfields) ==
    [kind |-> kind, name |-> name, parent |-> parent, extends |-> extends,
     implements |-> implements, methods |-> methods, nfields |-> nfields]

\* A source text, by what javalang.parse.parse makes of it: a compilation unit
\* ("ok"), a JavaSyntaxError ("syntax") or a tokenizer LexerError ("lexer").
Source(kind, package, imports, decls) ==
    [kind |-> kind, package |-> package, imports |-> imports, decls |-> decls]

SrcFoo ==
    Source("ok", Some("com.x"), <<"java.util.List">>,
           << DeclNode("class", "Foo", 0, <<>>, <<"Bar">>,
                       <<MethodNode("run", Some(<<IfReady>>))>>, 1),
              DeclNode("interface", "Bar", 0, <<>>, <<>>,
                       <<MethodNode("run", None)>>, 0) >>)

SrcBaz ==
    Source("ok", Some("com.y"), <<>>,
           << DeclNode("class", "Baz", 0, <<"Foo">>, <<>>,
                       <<MethodNode("check", Some(<<IfBoth>>))>>, 0) >>)

\* A class Foo in the default package (no package declaration).
SrcFooNoPackage ==
    Source("ok", None, <<>>,
           << DeclNode("class", "Foo", 0, <<>>, <<>>, <<MethodNode("go", Some(<<>>))>>, 0) >>)

\* `class Outer { void a() {}  class Inner { void b() {} } }` : a member
\* class, after the method of the class that contains it.
SrcOuter ==
    Source("ok", Some("com.x"), <<>>,
           << DeclNode("class", "Outer", 0, <<>>, <<>>, <<MethodNode("a", Some(<<>>))>>, 1),
              DeclNode("class", "Inner", 1, <<>>, <<>>, <<MethodNode("b", Some(<<>>))>>, 1) >>)

\* A well-formed file that declares no class and no interface.
SrcPackageInfo == Source("ok", Some("com.x"), <<>>, <<>>)

\* `class A {` : the grammar parser raises JavaSyntaxError.
SrcSyntaxError == Source("syntax", None, <<>>, <<>>)

\* `class A { String s = "abc; }` : the tokenizer raises LexerError.
SrcLexerError == Source("lexer", None, <<>>, <<>>)

Sources ==
    {SrcFoo, SrcBaz, SrcFooNoPackage, SrcOuter, SrcPackageInfo, SrcSyntaxError, SrcLexerError}

\* javalang.parse.parse(code): the exception it raises, or None.
JavalangParse(src) ==
    CASE src.kind = "syntax" -> Some("JavaSyntaxError")
      [] src.kind = "lexer" -> Some("LexerError")
      [] OTHER -> None

\* `except javalang.parser.JavaSyntaxError`: LexerError is no subclass of it.
CaughtByParser(exc) == exc = "JavaSyntaxError"

\* The decision keywords and the number of (case-insensitive) occurrences of a
\* keyword in one piece of the body's text.
DecisionKeywords == <<"if", "for", "while", "case", "catch", "&&", "||", "?">>

Occurrences(piece, keyword) ==
    CASE piece = "if" /\ keyword = "if" -> 1
      [] piece = "IF" /\ keyword = "if" -> 1
      [] piece = "&&" /\ keyword = "&&" -> 1
      [] piece = "qualifier" /\ keyword = "if" -> 1
      [] piece = "notify" /\ keyword = "if" -> 1
      [] piece = "for" /\ keyword = "for" -> 1
      [] OTHER -> 0

RECURSIVE Flatten(_)
Flatten(ss) == IF ss = <<>> THEN <<>> ELSE Head(ss) \o Flatten(Tail(ss))

RECURSIVE safe_to_dict(_)
\* str(safe_to_dict(obj)) for a node: the text of the dictionary of its
\* attributes, as its pieces (each key, and each value that is a string), in
\* order.  The dictionary holds the attributes only: the node's class name is
\* no part of it.
safe_to_dict(obj) ==
    LET primary == <<"prefix_operators", "postfix_operators", "qualifier", "selectors">>
    IN  CASE obj.node = "MemberReference" -> primary \o <<"member", obj.member>>
          [] obj.node = "BinaryOperation" ->
                <<"operator", obj.operator, "operandl">> \o safe_to_dict(obj.operandl)
                \o <<"operandr">> \o safe_to_dict(obj.operandr)
          [] obj.node = "ReturnStatement" -> <<"label", "expression">>
          [] obj.node = "StatementExpression" ->
                <<"label", "expression">> \o safe_to_dict(obj.expression)
          [] obj.node = "IfStatement" ->
                <<"label", "condition">> \o safe_to_dict(obj.condition)
                \o <<"then_statement">> \o safe_to_dict(obj.then_statement)
                \o <<"else_statement">>

\* str(safe_to_dict(method_node.body)): body is a list of statements.
BodyStr(body) == Flatten([i \in 1..Len(body) |-> safe_to_dict(body[i])])

RECURSIVE SumOver(_, _)
\* sum of f[i] for i in 1..n
SumOver(f, n) == IF n = 0 THEN 0 ELSE f[n] + SumOver(f, n - 1)

\* calculate_method_complexity(method_node)
calculate_method_complexity(m) ==
    IF m.body = None \/ m.body[1] = <<>>
    THEN 1
    ELSE LET body_str == BodyStr(m.body[1])
             perKeyword == [k \in 1..Len(DecisionKeywords) |->
                 SumOver([j \in 1..Len(body_str) |->
                             Occurrences(body_str[j], DecisionKeywords[k])],
                         Len(body_str))]
         IN  1 + SumOver(perKeyword, Len(DecisionKeywords))

\* extract_method_info(method_node)
extract_method_info(m) ==
    [name |-> m.name, complexity |-> calculate_method_complexity(m)]

RECURSIVE IsUnder(_, _, _)
\* Whether declaration i of decls is declaration j or lies inside it.
IsUnder(decls, i, j) ==
    IF i = j THEN TRUE
    ELSE IF i = 0 \/ decls[i].parent = 0 THEN FALSE
    ELSE IsUnder(decls, decls[i].parent, j)

RECURSIVE TruePositions(_, _)
\* The positions i..Len(flags) at which flags is TRUE, in order.
TruePositions(flags, i) ==
    IF i > Len(flags) THEN <<>>
    ELSE (IF flags[i] THEN <<i>> ELSE <<>>) \o TruePositions(flags, i + 1)

\* The positions of s whose element satisfies Test, in order.
SelectIdx(s, Test(_)) == TruePositions([i \in 1..Len(s) |-> Test(s[i])], 1)

\* node.filter(MethodDeclaration): every method declaration under declaration
\* j, those of the declarations nested in it included, in pre-order.
MethodsUnder(decls, j) ==
    Flatten([i \in 1..Len(decls) |->
                IF IsUnder(decls, i, j) THEN decls[i].methods ELSE <<>>])

\* node.filter(FieldDeclaration), counted by declarator: the fields declared
\* under declaration j, those of the declarations nested in it included.
FieldsUnder(decls, j) ==
    SumOver([i \in 1..Len(decls) |-> IF IsUnder(decls, i, j) THEN decls[i].nfields ELSE 0],
            Len(decls))

MapSeq(s, F(_)) == [i \in 1..Len(s) |-> F(s[i])]

\* The class_info dictionary built for the class declaration at position j.
ClassInfo(decls, j) ==
    LET methods == MapSeq(MethodsUnder(decls, j), extract_method_info)
        total == SumOver([i \in 1..Len(methods) |-> methods[i].complexity], Len(methods))
    IN  [name |-> decls[j].name,
         type |-> "class",
         extends |-> IF decls[j].extends = <<>> THEN None ELSE Some(decls[j].extends[1]),
         implements |-> decls[j].implements,
         methods |-> methods,
         method_count |-> Len(methods),
         field_count |-> FieldsUnder(decls, j),
         avg_complexity |-> IF methods = <<>> THEN [num |-> 0, den |-> 1]
                            ELSE [num |-> total, den |-> Len(methods)]]

\* The interface_info dictionary built for the interface declaration at j.
InterfaceInfo(decls, j) ==
    LET methods == MapSeq(MethodsUnder(decls, j), extract_method_info)
    IN  [name |-> decls[j].name,
         type |-> "interface",
         extends |-> decls[j].extends,
         methods |-> methods,
         method_count |-> Len(methods)]

\* parse_java_file's initial result.
EmptyParsedFile(path) ==
    [file_path |-> path, classes |-> <<>>, interfaces |-> <<>>,
     package |-> None, imports |-> <<>>]

IsClassDecl(d) == d.kind = "class"
IsInterfaceDecl(d) == d.kind = "interface"

\* parse_java_file(file_path) on a file holding src: the exception that leaves
\* it (or None), the dictionary it returns, and whether it logged the warning.
parse_java_file(path, src) ==
    LET exc == JavalangParse(src)
        classIdx == SelectIdx(src.decls, IsClassDecl)
        ifaceIdx == SelectIdx(src.decls, IsInterfaceDecl)
    IN  IF exc # None
        THEN [raised |-> IF CaughtByParser(exc[1]) THEN None ELSE exc,
              warned |-> CaughtByParser(exc[1]),
              result |-> EmptyParsedFile(path)]
        ELSE [raised |-> None,
              warned |-> FALSE,
              result |-> [file_path |-> path,
                          classes |-> [i \in 1..Len(classIdx) |->
                                          ClassInfo(src.decls, classIdx[i])],
                          interfaces |-> [i \in 1..Len(ifaceIdx) |->
                                          InterfaceInfo(src.decls, ifaceIdx[i])],
                          package |-> src.package,
                          imports |-> src.imports]]

(***************************************************************************)
(* repository_scanner.py                                                   *)
(***************************************************************************)
FILE_EXTENSIONS == {".java"}

\* A file of the tree: the suffix of its name and its content.  Its path is
\* its position in the walk (paths are unique in a file system).
TreeFiles == [ext : {".java"}, src : Sources] \cup {[ext |-> ".txt", src |-> SrcPackageInfo]}

Trees == UNION {[1..n -> TreeFiles] : n \in 0..MaxFiles}

PathOf(i) == ToStr(i)

Selected_AnyFile(f) == TRUE

\* `any(file.endswith(ext) for ext in Config.FILE_EXTENSIONS)`
Selected(f) == \E ext \in FILE_EXTENSIONS : f.ext = ext

\* java_files holds positions of tree; the file at a path.
FileAt(i) == tree[i]

\* scan(): the os.walk loop, and the "Found ..." record.
ScanWalk ==
    /\ scan_pc = "idle"
    /\ LET sel == SelectIdx(tree, Selected)
       IN  /\ all_files' = [i \in 1..Len(tree) |-> i]
           /\ java_files' = sel
           /\ log' = Append(log, LogRec("INFO",
                        <<"Found", ToStr(Len(sel)), "Java files out of", ToStr(Len(tree))>>))
    /\ scan_pc' = "parsing"
    /\ scan_idx' = 1
    /\ UNCHANGED <<tree, parsed_files, parse_calls, scan_exc, stats>>
    /\ UNCHANGED notScan

\* One pass through `for idx, file_path in enumerate(java_files, 1)`.
ScanParse ==
    /\ scan_pc = "parsing"
    /\ scan_idx <= Len(java_files)
    /\ LET path == java_files[scan_idx]
           r == parse_java_file(PathOf(path), FileAt(path).src)
           warning == IF r.warned
                      THEN <<LogRec("WARNING", <<"Parse error in", PathOf(path)>>)>>
                      ELSE <<>>
       IN  /\ parse_calls' = Append(parse_calls,
                                [path |-> path, raised |-> r.raised, result |-> r.result])
           /\ log' = log \o warning
           /\ IF r.raised # None
              THEN /\ scan_pc' = "raised"
                   /\ scan_exc' = r.raised
                   /\ UNCHANGED <<scan_idx, parsed_files>>
              ELSE /\ parsed_files' =
                        IF r.result.classes # <<>> \/ r.result.interfaces # <<>>
                        THEN Append(parsed_files, r.result)
                        ELSE parsed_files
                   /\ scan_idx' = scan_idx + 1
                   /\ UNCHANGED <<scan_pc, scan_exc>>
    /\ UNCHANGED <<tree, all_files, java_files, stats>>
    /\ UNCHANGED notScan

\* The end of scan(): the "Successfully parsed" record and the return.
ScanReturn ==
    /\ scan_pc = "parsing"
    /\ scan_idx > Len(java_files)
    /\ log' = Append(log, LogRec("INFO",
                  <<"Successfully parsed", ToStr(Len(parsed_files)), "files">>))
    /\ scan_pc' = "returned"
    /\ UNCHANGED <<tree, all_files, java_files, scan_idx, parsed_files, parse_calls, scan_exc,
                   stats>>
    /\ UNCHANGED notScan

\* scan()'s locals before it runs.
ScanFresh ==
    /\ all_files = <<>>
    /\ java_files = <<>>
    /\ scan_idx = 0
    /\ parsed_files = <<>>
    /\ parse_calls = <<>>
    /\ scan_exc = None
    /\ stats = None

\* A RepositoryScanner whose scan() has just been called.
ScanStart == scan_pc = "idle" /\ ScanFresh

ScanIdle == tree = <<>> /\ ScanStart

\* scan() as a function of the tree: the exception that leaves it (or None) and
\* the parsed_files it has accumulated after the first n selected files.
RECURSIVE ScanFold(_, _, _)
ScanFold(t, sel, n) ==
    IF n = 0 THEN [raised |-> None, parsed_files |-> <<>>]
    ELSE LET before == ScanFold(t, sel, n - 1)
             r == parse_java_file(PathOf(sel[n]), t[sel[n]].src)
         IN  IF before.raised # None THEN before
             ELSE IF r.raised # None
             THEN [raised |-> r.raised, parsed_files |-> before.parsed_files]
             ELSE IF r.result.classes # <<>> \/ r.result.interfaces # <<>>
             THEN [raised |-> None, parsed_files |-> Append(before.parsed_files, r.result)]
             ELSE before

ScanOutcome(t) == LET sel == SelectIdx(t, Selected) IN ScanFold(t, sel, Len(sel))

get_statistics_CountsInterfaceMethods(pfs) ==
    LET all_classes == Flatten([i \in 1..Len(pfs) |-> pfs[i].classes])
        all_interfaces == Flatten([i \in 1..Len(pfs) |-> pfs[i].interfaces])
        packages == Flatten([i \in 1..Len(pfs) |->
                        IF Truthy(pfs[i].package) THEN <<pfs[i].package[1]>> ELSE <<>>])
    IN  [total_files |-> Len(pfs),
         total_classes |-> Len(all_classes),
         total_interfaces |-> Len(all_interfaces),
         total_methods |-> SumOver([i \in 1..Len(all_classes) |-> all_classes[i].method_count],
                                   Len(all_classes))
                           + SumOver([i \in 1..Len(all_interfaces) |->
                                         all_interfaces[i].method_count], Len(all_interfaces)),
         total_fields |-> SumOver([i \in 1..Len(all_classes) |-> all_classes[i].field_count],
                                  Len(all_classes)),
         unique_packages |-> Cardinality({packages[i] : i \in 1..Len(packages)}),
         packages |-> {packages[i] : i \in 1..Len(packages)}]

\* get_statistics(parsed_files)
get_statistics(pfs) ==
    LET all_classes == Flatten([i \in 1..Len(pfs) |-> pfs[i].classes])
        all_interfaces == Flatten([i \in 1..Len(pfs) |-> pfs[i].interfaces])
        packages == Flatten([i \in 1..Len(pfs) |->
                        IF Truthy(pfs[i].package) THEN <<pfs[i].package[1]>> ELSE <<>>])
    IN  [total_files |-> Len(pfs),
         total_classes |-> Len(all_classes),
         total_interfaces |-> Len(all_interfaces),
         total_methods |-> SumOver([i \in 1..Len(all_classes) |-> all_classes[i].method_count],
                                   Len(all_classes)),
         total_fields |-> SumOver([i \in 1..Len(all_classes) |-> all_classes[i].field_count],
                                  Len(all_classes)),
         unique_packages |-> Cardinality({packages[i] : i \in 1..Len(packages)}),
         packages |-> {packages[i] : i \in 1..Len(packages)}]

\* A call stats = get_statistics(parsed_files) on what scan returned.
ScanStatistics ==
    /\ scan_pc = "returned"
    /\ stats = None
    /\ stats' = Some(get_statistics(parsed_files))
    /\ UNCHANGED <<log, tree, scan_pc, all_files, java_files, scan_idx, parsed_files,
                   parse_calls, scan_exc>>
    /\ UNCHANGED notScan

(***************************************************************************)
(* knowledge_structurer.py                                                 *)
(***************************************************************************)

\* The values datetime.now().isoformat() may take.
Timestamps == {"t1", "t2"}

\* all_classes, all_interfaces and packages of structure_knowledge.
AllClasses(pfs) == Flatten([i \in 1..Len(pfs) |-> pfs[i].classes])
AllInterfaces(pfs) == Flatten([i \in 1..Len(pfs) |-> pfs[i].interfaces])
PackageList(pfs) ==
    Flatten([i \in 1..Len(pfs) |->
                IF Truthy(pfs[i].package) THEN <<pfs[i].package[1]>> ELSE <<>>])

\* `any(c["name"] == class_name for c in pf["classes"])`
DeclaresClass(pf, class_name) ==
    \E i \in 1..Len(pf.classes) : pf.classes[i].name = class_name

\* pf.get("package", "N/A"): the default is used only when the key is absent.
GetPackage(pf) == IF "package" \in DOMAIN pf THEN pf.package ELSE Some("N/A")

RECURSIVE FindPackageFrom(_, _, _)
FindPackageFrom(class_name, pfs, i) ==
    IF i > Len(pfs) THEN Some("N/A")
    ELSE IF DeclaresClass(pfs[i], class_name) THEN GetPackage(pfs[i])
    ELSE FindPackageFrom(class_name, pfs, i + 1)

\* _find_package(class_name, parsed_files): None or Some(package)
_find_package(class_name, pfs) == FindPackageFrom(class_name, pfs, 1)

\* round(num / den, 2), in hundredths (ties to even).
Round2(num, den) ==
    LET q == (100 * num) \div den
        r == (100 * num) % den
    IN  IF 2 * r > den \/ (2 * r = den /\ q % 2 = 1) THEN q + 1 ELSE q

\* The dictionary _process_classes appends for cls.
ClassSummary(cls, pfs, summary) ==
    [name |-> cls.name,
     type |-> cls.type,
     package |-> _find_package(cls.name, pfs),
     extends |-> cls.extends,
     implements |-> cls.implements,
     method_count |-> cls.method_count,
     field_count |-> cls.field_count,
     avg_complexity |-> Round2(cls.avg_complexity.num, cls.avg_complexity.den),
     methods |-> cls.methods,
     summary |-> summary]

\* _process_interfaces(all_interfaces)
_process_interfaces(ifaces) ==
    [i \in 1..Len(ifaces) |->
        [name |-> ifaces[i].name,
         type |-> "interface",
         extends |-> ifaces[i].extends,
         method_count |-> ifaces[i].method_count,
         methods |-> [j \in 1..Len(ifaces[i].methods) |-> ifaces[i].methods[j].name]]]

SeqToSet(s) == {s[i] : i \in 1..Len(s)}

_build_metadata_CountsInterfaceMethods(summaries, ifaces, packages, now) ==
    [extraction_date |-> now,
     total_classes |-> Len(summaries),
     total_interfaces |-> Len(ifaces),
     total_methods |-> SumOver([i \in 1..Len(summaries) |-> summaries[i].method_count],
                               Len(summaries))
                       + SumOver([i \in 1..Len(ifaces) |-> ifaces[i].method_count],
                                 Len(ifaces)),
     packages |-> SeqToSet(packages),
     avg_class_complexity |->
        IF summaries = <<>> THEN 0
        ELSE Round2(SumOver([i \in 1..Len(summaries) |-> summaries[i].avg_complexity],
                            Len(summaries)),
                    100 * Len(summaries))]

\* _build_metadata(class_summaries, all_interfaces, packages) at time now.
_build_metadata(summaries, ifaces, packages, now) ==
    [extraction_date |-> now,
     total_classes |-> Len(summaries),
     total_interfaces |-> Len(ifaces),
     total_methods |-> SumOver([i \in 1..Len(summaries) |-> summaries[i].method_count],
                               Len(summaries)),
     packages |-> SeqToSet(packages),
     avg_class_complexity |->
        IF summaries = <<>> THEN 0
        ELSE Round2(SumOver([i \in 1..Len(summaries) |-> summaries[i].avg_complexity],
                            Len(summaries)),
                    100 * Len(summaries))]

\* The structured_knowledge dictionary structure_knowledge builds at its end.
BuildReport(pfs, overview, summaries, now) ==
    [metadata |-> _build_metadata(summaries, AllInterfaces(pfs), PackageList(pfs), now),
     project_overview |-> overview,
     classes |-> summaries,
     interfaces |-> _process_interfaces(AllInterfaces(pfs))]

\* structure_knowledge(parsed_files) up to its call of extract_project_overview.
SKStart ==
    /\ sk_pc = "idle"
    /\ llm_pc = "idle"
    /\ log' = Append(log, LogRec("INFO",
                <<"Processing", ToStr(Len(AllClasses(sk_input))), "classes and",
                  ToStr(Len(AllInterfaces(sk_input))), "interfaces">>))
    /\ LLMBegin("overview", "")
    /\ sk_pc' = "overview"
    /\ UNCHANGED <<invocations, sk_input, project_overview, class_summaries, sk_idx, report, first_call>>
    /\ UNCHANGED notStruct

SKOverviewReturned_KeepsSummaries ==
    /\ sk_pc = "overview"
    /\ llm_pc = "returned"
    /\ project_overview' = llm_ret
    /\ sk_pc' = "classes"
    /\ sk_idx' = 1
    /\ llm_pc' = "idle"
    /\ UNCHANGED <<log, invocations, llm_op, llm_subject, attempt, responses,
                   call_result, llm_ret, log_mark, requests, sk_input, report, first_call,
                   class_summaries>>
    /\ UNCHANGED notStruct

\* extract_project_overview has returned: project_overview is assigned and
\* _process_classes begins (`class_summaries = []`).
SKOverviewReturned ==
    /\ sk_pc = "overview"
    /\ llm_pc = "returned"
    /\ project_overview' = llm_ret
    /\ sk_pc' = "classes"
    /\ sk_idx' = 1
    /\ class_summaries' = <<>>
    /\ llm_pc' = "idle"
    /\ UNCHANGED <<log, invocations, llm_op, llm_subject, attempt, responses,
                   call_result, llm_ret, log_mark, requests, sk_input, report, first_call>>
    /\ UNCHANGED notStruct

\* _process_classes' loop body up to its call of extract_class_summary.
SKClassRequest ==
    /\ sk_pc = "classes"
    /\ llm_pc = "idle"
    /\ sk_idx <= Len(AllClasses(sk_input))
    /\ log' = Append(log, LogRec("INFO",
                <<"Processing class", ToStr(sk_idx), AllClasses(sk_input)[sk_idx].name>>))
    /\ LLMBegin("class", AllClasses(sk_input)[sk_idx].name)
    /\ UNCHANGED <<invocations, structVars>>
    /\ UNCHANGED notStruct

\* extract_class_summary has returned: the rest of the loop body.
SKClassReturned ==
    /\ sk_pc = "classes"
    /\ llm_pc = "returned"
    /\ class_summaries' = Append(class_summaries,
            ClassSummary(AllClasses(sk_input)[sk_idx], sk_input, llm_ret))
    /\ sk_idx' = sk_idx + 1
    /\ llm_pc' = "idle"
    /\ UNCHANGED <<log, invocations, llm_op, llm_subject, attempt, responses,
                   call_result, llm_ret, log_mark, requests,
                   sk_pc, sk_input, project_overview, report, first_call>>
    /\ UNCHANGED notStruct

SKFinish_Early ==
    /\ sk_pc = "classes"
    /\ llm_pc = "idle"
    /\ \E now \in Timestamps :
        report' = Some(BuildReport(sk_input, project_overview, class_summaries, now))
    /\ sk_pc' = "done"
    /\ UNCHANGED <<log, llmVars, sk_input, project_overview, class_summaries, sk_idx, first_call>>
    /\ UNCHANGED notStruct

\* The end of structure_knowledge: _process_interfaces, _build_metadata, return.
SKFinish ==
    /\ sk_pc = "classes"
    /\ llm_pc = "idle"
    /\ sk_idx > Len(AllClasses(sk_input))
    /\ \E now \in Timestamps :
        report' = Some(BuildReport(sk_input, project_overview, class_summaries, now))
    /\ sk_pc' = "done"
    /\ UNCHANGED <<log, llmVars, sk_input, project_overview, class_summaries, sk_idx, first_call>>
    /\ UNCHANGED notStruct

\* A KeyboardInterrupt raised inside the backend call leaves structure_knowledge.
SKInterrupted ==
    /\ sk_pc \in {"overview", "classes"}
    /\ llm_pc = "raised"
    /\ sk_pc' = "raised"
    /\ UNCHANGED <<log, llmVars, sk_input, project_overview, class_summaries, sk_idx, report, first_call>>
    /\ UNCHANGED notStruct

\* structure_knowledge(parsed_files) is called a second time, on the same
\* parsed_files, after its first call returned.
SKAgain ==
    /\ sk_pc = "done"
    /\ llm_pc = "idle"
    /\ first_call = None
    /\ first_call' = Some([report |-> report[1], invocations |-> Len(invocations)])
    /\ sk_pc' = "idle"
    /\ report' = None
    /\ UNCHANGED <<log, llmVars, sk_input, project_overview, class_summaries, sk_idx>>
    /\ UNCHANGED notStruct

\* A deterministic backend: in the second call the backend does on each
\* invocation what it did on the same invocation of the first call.
Replays ==
    first_call # None =>
        LET n == Len(invocations')
            n1 == first_call[1].invocations
        IN  n > n1 => invocations'[n].out = invocations'[n - n1].out

\* One pass of call_with_retry's loop against the deterministic backend.
LLMAttemptReplayed == LLMAttempt /\ Replays

\* structure_knowledge's locals before it runs.
StructFresh ==
    /\ project_overview = ""
    /\ class_summaries = <<>>
    /\ sk_idx = 0
    /\ report = None
    /\ first_call = None

\* A KnowledgeStructurer whose structure_knowledge has just been called.
StructStart == sk_pc = "idle" /\ StructFresh

StructIdle == sk_input = <<>> /\ StructStart

\* The lists of parsed files a scan of at most MaxParsed files can return.
StructInputs ==
    {ScanOutcome(t).parsed_files :
        t \in {u \in UNION {[1..n -> TreeFiles] : n \in 0..MaxParsed} :
                   /\ ScanOutcome(u).raised = None
                   /\ Len(AllClasses(ScanOutcome(u).parsed_files)) <= MaxClasses}}

(***************************************************************************)
(* vector_store.py                                                         *)
(***************************************************************************)

\* str(x) of an Optional[str] inside an f-string.
PyStr(opt) == IF opt = None THEN "None" ELSE opt[1]

\* _format_class_text(cls): the lines joined by "\n", each a label and its values.
_format_class_text(cls) ==
    << <<"Class:", cls.name>>,
       <<"Package:", PyStr(cls.package)>>,
       <<"Methods:", ToStr(cls.method_count)>>,
       <<"Summary:", cls.summary>> >>
    \o (IF Truthy(cls.extends) THEN << <<"Extends:", cls.extends[1]>> >> ELSE <<>>)
    \o (IF cls.implements # <<>> THEN << <<"Implements:">> \o cls.implements >> ELSE <<>>)

\* _format_interface_text(interface)
_format_interface_text(iface) ==
    << <<"Interface:", iface.name>>,
       <<"Methods:", ToStr(iface.method_count)>> >>
    \o (IF iface.extends # <<>> THEN << <<"Extends:">> \o iface.extends >> ELSE <<>>)

OverviewEntry(overview) ==
    [text |-> << <<overview>> >>, metadata |-> [type |-> "project_overview"]]

ClassEntry(cls) ==
    [text |-> _format_class_text(cls),
     metadata |-> [type |-> "class", class_name |-> cls.name, package |-> cls.package]]

InterfaceEntry_TypedAsClass(iface) ==
    [text |-> _format_interface_text(iface),
     metadata |-> [type |-> "class", interface_name |-> iface.name]]

InterfaceEntry(iface) ==
    [text |-> _format_interface_text(iface),
     metadata |-> [type |-> "interface", interface_name |-> iface.name]]

\* After a write (or a skipped overview): the position store_knowledge is at.
StoreAdvance(ok, next_pc, next_i) ==
    IF ok
    THEN /\ store_pc' = next_pc
         /\ store_i' = next_i
    ELSE /\ store_pc' = "raised"
         /\ UNCHANGED store_i

AddTexts_UpsertByContent(entry, pos, ok) ==
    IF ok
    THEN /\ index' = IF \E i \in 1..Len(index) : index[i] = entry
                     THEN index
                     ELSE Append(index, entry)
         /\ UNCHANGED failed_writes
    ELSE /\ failed_writes' = failed_writes \cup {pos}
         /\ UNCHANGED index

\* self.vector_store.add_texts(texts=[...], metadatas=[...]) for the entry at
\* position pos of this call: it appends the entry, or raises.
AddTexts(entry, pos, ok) ==
    IF ok
    THEN /\ index' = Append(index, entry)
         /\ UNCHANGED failed_writes
    ELSE /\ failed_writes' = failed_writes \cup {pos}
         /\ UNCHANGED index

\* store_knowledge(structured_knowledge), up to its first call, with the
\* records logged by the caller just before it.
StoreEnter(before) ==
    /\ store_calls' = store_calls + 1
    /\ store_pc' = "overview"
    /\ store_i' = 0
    /\ index_mark' = Len(index)
    /\ failed_writes' = {}
    /\ log' = log \o before \o <<LogRec("INFO", <<"Storing knowledge in vector database...">>)>>
    /\ UNCHANGED index

\* A store_knowledge call on the report at hand.
StoreBegin ==
    /\ store_pc \in {"idle", "done", "raised"}
    /\ store_calls < MaxStores
    /\ StoreEnter(<<>>)
    /\ UNCHANGED store_input
    /\ UNCHANGED notStore

\* _store_project_overview(overview)
StoreOverview ==
    /\ store_pc = "overview"
    /\ IF store_input.project_overview = ""
       THEN /\ StoreAdvance(TRUE, "classes", 1)
            /\ UNCHANGED <<index, failed_writes>>
       ELSE \E ok \in BOOLEAN :
            /\ AddTexts(OverviewEntry(store_input.project_overview), 1, ok)
            /\ StoreAdvance(ok, "classes", 1)
    /\ UNCHANGED <<log, store_input, index_mark, store_calls>>
    /\ UNCHANGED notStore

\* One pass through _store_classes' loop.
StoreClass ==
    /\ store_pc = "classes"
    /\ store_i <= Len(store_input.classes)
    /\ \E ok \in BOOLEAN :
        /\ AddTexts(ClassEntry(store_input.classes[store_i]), 1 + store_i, ok)
        /\ StoreAdvance(ok, "classes", store_i + 1)
    /\ UNCHANGED <<log, store_input, index_mark, store_calls>>
    /\ UNCHANGED notStore

\* _store_classes returns; _store_interfaces begins.
StoreClassesEnd ==
    /\ store_pc = "classes"
    /\ store_i > Len(store_input.classes)
    /\ store_pc' = "interfaces"
    /\ store_i' = 1
    /\ UNCHANGED <<log, index, store_input, index_mark, failed_writes, store_calls>>
    /\ UNCHANGED notStore

\* One pass through _store_interfaces' loop.
StoreInterface ==
    /\ store_pc = "interfaces"
    /\ store_i <= Len(store_input.interfaces)
    /\ \E ok \in BOOLEAN :
        /\ AddTexts(InterfaceEntry(store_input.interfaces[store_i]),
                    1 + Len(store_input.classes) + store_i, ok)
        /\ StoreAdvance(ok, "interfaces", store_i + 1)
    /\ UNCHANGED <<log, store_input, index_mark, store_calls>>
    /\ UNCHANGED notStore

\* _store_interfaces returns; store_knowledge logs and returns.
StoreEnd ==
    /\ store_pc = "interfaces"
    /\ store_i > Len(store_input.interfaces)
    /\ store_pc' = "done"
    /\ log' = Append(log, LogRec("INFO", <<"Vector database updated successfully">>))
    /\ UNCHANGED <<index, store_input, store_i, index_mark, failed_writes, store_calls>>
    /\ UNCHANGED notStore

\* A VectorStoreManager before store_knowledge is called, on an empty index.
StoreStart ==
    /\ index = <<>>
    /\ store_pc = "idle"
    /\ store_i = 0
    /\ index_mark = 0
    /\ failed_writes = {}
    /\ store_calls = 0

EmptyReport == BuildReport(<<>>, "", <<>>, "t1")

StoreIdle == store_input = EmptyReport /\ StoreStart

\* The texts a summary or an overview of a report can be.
SummaryTexts == {"text A", "Summary unavailable"}

\* The reports store_knowledge is given: those structure_knowledge builds, and
\* the same with an empty project_overview (which main never passes).
StoreInputs ==
    UNION {
        {BuildReport(pfs, ov,
                     [i \in 1..Len(AllClasses(pfs)) |->
                         ClassSummary(AllClasses(pfs)[i], pfs, sums[i])],
                     "t1") :
            ov \in {"", "text B"},
            sums \in [1..Len(AllClasses(pfs)) -> SummaryTexts]} :
        pfs \in StructInputs }

(***************************************************************************)
(* git_cloner.py                                                           *)
(***************************************************************************)

\* Config.REPO_PATH
REPO_PATH == "cloned_code_repo"

\* URLs and messages are sequences of pieces of text; a token is one piece.
UrlGithub == <<"https://", "github.com", "/acme/app.git">>
UrlGitlab == <<"https://", "gitlab.com", "/acme/lib.git">>
UrlSsh == <<"git@", "github.com", ":acme/app.git">>
EmptyUrl == <<>>

RepoUrls == {UrlGithub, UrlGitlab, UrlSsh}

\* Config.GIT_TOKEN: "" when unset.
GitTokens == {"", "ghp_secret"}

\* s.replace(old, new), piece by piece.
Replace(s, old, new) == [i \in 1..Len(s) |-> IF s[i] = old THEN new ELSE s[i]]

\* `piece in s`
Contains(s, piece) == \E i \in 1..Len(s) : s[i] = piece

\* _inject_token(repo_url)
_inject_token(token, repo_url) ==
    IF token = "" THEN repo_url
    ELSE IF repo_url # <<>> /\ repo_url[1] = "https://"
    THEN IF Contains(repo_url, "github.com")
         THEN <<"https://", token, "@">> \o Tail(repo_url)
         ELSE IF Contains(repo_url, "gitlab.com")
         THEN <<"https://", "oauth2:", token, "@">> \o Tail(repo_url)
         ELSE <<"https://", token, "@">> \o Tail(repo_url)
    ELSE repo_url

\* _mask_url(url)
_mask_url(token, url) ==
    IF token # "" /\ Contains(url, token) THEN Replace(url, token, "***TOKEN***") ELSE url

\* The files of the repository a URL names.
RemoteFiles(repo_url) ==
    CASE repo_url = UrlGithub -> << [ext |-> ".java", src |-> SrcFoo],
                                    [ext |-> ".txt", src |-> SrcPackageInfo] >>
      [] repo_url = UrlGitlab -> << [ext |-> ".java", src |-> SrcSyntaxError],
                                    [ext |-> ".java", src |-> SrcBaz] >>
      [] repo_url = UrlSsh -> << [ext |-> ".java", src |-> SrcLexerError] >>
      [] OTHER -> <<>>

\* What can be at target_dir: nothing, a directory that is no repository, or a
\* working copy (of the repository `repo`, with remote origin url `origin`).
AbsentDir == [kind |-> "absent", repo |-> <<>>, origin |-> <<>>, files |-> <<>>]
PlainDir == [kind |-> "dir", repo |-> <<>>, origin |-> <<>>,
             files |-> << [ext |-> ".java", src |-> SrcPackageInfo] >>]
RepoDir(repo_url, clone_url) ==
    [kind |-> "repo", repo |-> repo_url, origin |-> clone_url,
     files |-> RemoteFiles(repo_url)]

\* _is_git_repo(path)
_is_git_repo(dir) == dir.kind = "repo"

\* What git writes to stderr when a clone fails.
GitErrors == {"fatal: Authentication failed", "remote: Repository not found",
              "API rate limit exceeded", "fatal: unable to access"}

\* What Repo.clone_from can do: succeed, or raise GitCommandError; the command
\* line in the error shows the URL as given or, with a client that redacts
\* credentials, with the credentials starred out.
CloneOutcomes ==
    {[ok |-> TRUE, stderr |-> "", redacted |-> FALSE]}
        \cup [ok : {FALSE}, stderr : GitErrors, redacted : BOOLEAN]

\* The position of "@" in a URL (0 if it carries no credentials).
AtPos(url) == IF Contains(url, "@") THEN CHOOSE i \in 1..Len(url) : url[i] = "@" ELSE 0

\* The client's own redaction of the credentials of a URL on a command line.
Redacted(url) == [i \in 1..Len(url) |-> IF 1 < i /\ i < AtPos(url) THEN "*****" ELSE url[i]]

Exc(class, msg) == [class |-> class, msg |-> msg]

\* str(e) of the GitCommandError of a failed clone of clone_url.
GitCommandErrorStr(clone_url, out) ==
    <<"Cmd('git') failed due to: exit code(128)", "cmdline: git clone -v --">>
    \o (IF out.redacted THEN Redacted(clone_url) ELSE clone_url)
    \o <<REPO_PATH, "stderr:", out.stderr>>

\* The "helpful error messages" of clone_repository.
HelpfulError(error_msg) ==
    IF Contains(error_msg, "fatal: Authentication failed")
    THEN <<LogRec("ERROR", <<"Authentication required. Please provide a GIT_TOKEN in your .env file.">>)>>
    ELSE IF Contains(error_msg, "remote: Repository not found")
    THEN <<LogRec("ERROR", <<"Repository not found. Check the URL or your access permissions.">>)>>
    ELSE IF Contains(error_msg, "API rate limit exceeded")
    THEN <<LogRec("ERROR", <<"GitHub API rate limit exceeded. Please provide a GIT_TOKEN to increase limits.">>)>>
    ELSE <<>>

\* GitCloner(REPO_PATH, token).clone_repository(repo_url, force) when target_dir
\* holds dir and Repo.clone_from, if called, does out: the directory afterwards,
\* the records logged, and the exception raised (None when it returns).
clone_repository(dir, token, repo_url, force, out) ==
    LET head == << LogRec("INFO", <<"Cloning repository:">> \o _mask_url(token, repo_url)),
                   LogRec("INFO", <<"Target directory:", REPO_PATH>>) >>
        exists == dir.kind # "absent"
        clone_url == IF token # "" THEN _inject_token(token, repo_url) ELSE repo_url
        str_e == GitCommandErrorStr(clone_url, out)
        error_msg == IF token # "" THEN Replace(str_e, token, "***TOKEN***") ELSE str_e
    IN  IF repo_url = <<>>
        THEN [dir |-> dir, logs |-> <<>>,
              raised |-> Some(Exc("ValueError", <<"Repository URL cannot be empty">>))]
        ELSE IF exists /\ ~force
        THEN IF _is_git_repo(dir)
             THEN [dir |-> dir,
                   logs |-> head \o << LogRec("INFO", <<"Directory already exists:", REPO_PATH>>),
                                       LogRec("INFO", <<"Using existing repository">>) >>,
                   raised |-> None]
             ELSE [dir |-> dir,
                   logs |-> head \o << LogRec("INFO", <<"Directory already exists:", REPO_PATH>>) >>,
                   raised |-> Some(Exc("ValueError",
                                <<"Directory", REPO_PATH, "exists but is not a git repository.">>))]
        ELSE LET removal == IF exists
                            THEN <<LogRec("WARNING", <<"Removing existing directory:", REPO_PATH>>)>>
                            ELSE <<>>
                 start == head \o removal \o <<LogRec("INFO", <<"Starting clone operation...">>)>>
             IN  IF out.ok
                 THEN [dir |-> RepoDir(repo_url, clone_url),
                       logs |-> start \o <<LogRec("INFO",
                                    <<"Repository cloned successfully to", REPO_PATH>>)>>,
                       raised |-> None]
                 ELSE [dir |-> AbsentDir,
                       logs |-> start
                                \o <<LogRec("ERROR", <<"Failed to clone repository:">> \o error_msg)>>
                                \o HelpfulError(error_msg),
                       raised |-> Some(Exc("GitCommandError", str_e))]

\* A GitCloner before clone_repository is called.
CloneStart ==
    /\ clone_pc = "idle"
    /\ clone_exc = None

CloneIdle == target_dir = AbsentDir /\ CloneStart /\ runs = 0

(***************************************************************************)
(* config.py and main.py                                                   *)
(***************************************************************************)

\* Config as the environment sets it: GROQ_API_KEY ("" when unset), REPO_URL,
\* GIT_TOKEN and FORCE_CLONE.
Configs ==
    [api_key : {"", "gsk_key"}, repo_url : {EmptyUrl} \cup RepoUrls,
     git_token : GitTokens, force : BOOLEAN]

\* Config.validate(): the ValueError it raises, or None.  os.path.exists(REPO_PATH)
\* is read from the directory dir.
validate_OnlyApiKey(cfg, dir) ==
    IF cfg.api_key = ""
    THEN Some(Exc("ValueError", <<"GROQ_API_KEY not found. Please add it to your .env file.">>))
    ELSE None

validate(cfg, dir) ==
    IF cfg.api_key = ""
    THEN Some(Exc("ValueError", <<"GROQ_API_KEY not found. Please add it to your .env file.">>))
    ELSE IF cfg.repo_url = EmptyUrl /\ dir.kind = "absent"
    THEN Some(Exc("ValueError", <<"REPO_URL not found in .env and no existing repository at",
                                  REPO_PATH>>))
    ELSE None

KeyboardInterrupt == Exc("KeyboardInterrupt", <<>>)

\* What sys.exit(1) raises.
SystemExit == Exc("SystemExit", <<"1">>)

\* The file at OUTPUT_FILE: absent, open for writing with part of the JSON text
\* in it ("partial": from nothing to all but the last flush), or a whole report.
\* by_run tells whether this run wrote to it.
NoArtifact == [state |-> "absent", by_run |-> FALSE, content |-> None]
OldArtifact == [state |-> "complete", by_run |-> FALSE, content |-> Some(EmptyReport)]
PartialArtifact == [state |-> "partial", by_run |-> TRUE, content |-> None]
CompleteArtifact(k) == [state |-> "complete", by_run |-> TRUE, content |-> Some(k)]

\* An exception e leaves main's try body: the except clauses it meets, the
\* records they log and the exit code of the process.  KeyboardInterrupt and
\* Exception are caught and end in sys.exit(1); a SystemExit raised in the body
\* by sys.exit(1) is neither, and ends the process with its code.
MainHandlers_InterruptUncaught(e) ==
    CASE e.class = "KeyboardInterrupt" -> [logs |-> <<>>, code |-> 130]
      [] e.class = "SystemExit" -> [logs |-> <<>>, code |-> 1]
      [] OTHER -> [logs |-> <<LogRec("ERROR", <<"Error during execution:">> \o e.msg)>>,
                   code |-> 1]

MainHandlers(e) ==
    CASE e.class = "KeyboardInterrupt" ->
            [logs |-> <<LogRec("WARNING", <<"Process interrupted by user">>)>>, code |-> 1]
      [] e.class = "SystemExit" -> [logs |-> <<>>, code |-> 1]
      [] OTHER -> [logs |-> <<LogRec("ERROR", <<"Error during execution:">> \o e.msg)>>,
                   code |-> 1]

\* The try body ends with exception e, after logging the records before.
Exit(before, e) ==
    /\ log' = log \o before \o MainHandlers(e).logs
    /\ exit_code' = Some(MainHandlers(e).code)
    /\ main_exc' = Some(e)
    /\ pc' = "exited"

Banner(title) == <<LogRec("INFO", <<"====">>), LogRec("INFO", <<title>>), LogRec("INFO", <<"====">>)>>

\* main up to and including Config.validate().
MainValidate ==
    /\ pc = "validate"
    /\ LET v == validate(config, target_dir)
       IN  IF v # None
           THEN Exit(Banner("Java Codebase Knowledge Extractor"), v[1])
           ELSE /\ log' = log \o Banner("Java Codebase Knowledge Extractor")
                /\ pc' = "clone"
                /\ UNCHANGED <<exit_code, main_exc>>
    /\ UNCHANGED <<config, artifact>>
    /\ UNCHANGED <<llmVars, scanVars, structVars, storeVars, cloneVars>>

\* main, from `if Config.REPO_URL:` through the call of clone_repository.
MainClone ==
    /\ pc = "clone"
    /\ clone_pc = "idle"
    /\ config.repo_url # EmptyUrl
    /\ \E out \in CloneOutcomes :
        LET r == clone_repository(target_dir, config.git_token, config.repo_url,
                                  config.force, out)
            auth == IF config.git_token # ""
                    THEN <<LogRec("INFO", <<"Using Git Personal Access Token for authentication">>)>>
                    ELSE <<LogRec("INFO", <<"No Git token provided - using unauthenticated access">>),
                           LogRec("INFO", <<"Note: GitHub has rate limits for unauthenticated requests">>)>>
        IN  /\ target_dir' = r.dir
            /\ log' = log \o Banner("STEP 0: Cloning Repository") \o auth \o r.logs
            /\ clone_exc' = r.raised
            /\ clone_pc' = IF r.raised = None THEN "returned" ELSE "raised"
    /\ UNCHANGED <<runs, mainVars>>
    /\ UNCHANGED notClone

\* main after clone_repository returned: get_repo_info and its records.
MainRepoInfo ==
    /\ pc = "clone"
    /\ clone_pc = "returned"
    /\ log' = log \o << LogRec("INFO", <<"Path:", REPO_PATH>>),
                        LogRec("INFO", <<"Remote URL:">>
                                        \o _mask_url(config.git_token, target_dir.origin)) >>
    /\ clone_pc' = "done"
    /\ pc' = "init"
    /\ UNCHANGED <<target_dir, clone_exc, runs, exit_code, config, artifact, main_exc>>
    /\ UNCHANGED notClone

\* main's `except Exception as e` around the clone: log str(e), sys.exit(1).
MainCloneFailed ==
    /\ pc = "clone"
    /\ clone_pc = "raised"
    /\ Exit(<<LogRec("ERROR", <<"Failed to clone repository:">> \o clone_exc[1].msg)>>,
            SystemExit)
    /\ UNCHANGED <<cloneVars, config, artifact>>
    /\ UNCHANGED notClone

\* main's else branch: no URL configured.
MainUseExisting ==
    /\ pc = "clone"
    /\ config.repo_url = EmptyUrl
    /\ log' = Append(log, LogRec("INFO", <<"Using existing repository at:", REPO_PATH>>))
    /\ pc' = "init"
    /\ UNCHANGED <<exit_code, config, artifact, main_exc>>
    /\ UNCHANGED <<llmVars, scanVars, structVars, storeVars, cloneVars>>

\* "Initializing services": the four constructors (the backend client, the
\* embedding model and the index may fail to load), then the call of scan().
MainInit ==
    /\ pc = "init"
    /\ \E ok \in BOOLEAN :
        LET before == << LogRec("INFO", <<"Initializing services...">>) >>
        IN  IF ok
            THEN /\ log' = log \o before
                           \o << LogRec("INFO", <<"Initializing vector store...">>) >>
                           \o Banner("STEP 1: Scanning Repository")
                 /\ pc' = "scan"
                 /\ scan_pc' = "idle"
                 /\ tree' = target_dir.files
                 /\ UNCHANGED <<exit_code, main_exc>>
            ELSE /\ Exit(before, Exc("RuntimeError", <<"service initialization failed">>))
                 /\ UNCHANGED <<scan_pc, tree>>
    /\ UNCHANGED <<all_files, java_files, scan_idx, parsed_files, parse_calls, scan_exc, stats>>
    /\ UNCHANGED <<config, artifact>>
    /\ UNCHANGED <<llmVars, structVars, storeVars, cloneVars>>

\* scan() has returned: the zero-files exit, or the statistics and the call of
\* structure_knowledge(parsed_files).
MainScanned ==
    /\ pc = "scan"
    /\ scan_pc = "returned"
    /\ IF parsed_files = <<>>
       THEN /\ Exit(<<LogRec("ERROR", <<"No Java files found or parsed successfully">>)>>,
                    SystemExit)
            /\ UNCHANGED <<sk_pc, sk_input, stats>>
       ELSE LET st == get_statistics(parsed_files)
            IN  /\ stats' = Some(st)
                /\ log' = log
                      \o << LogRec("INFO", <<"Total Files:", ToStr(st.total_files)>>),
                            LogRec("INFO", <<"Total Classes:", ToStr(st.total_classes)>>),
                            LogRec("INFO", <<"Total Interfaces:", ToStr(st.total_interfaces)>>),
                            LogRec("INFO", <<"Total Methods:", ToStr(st.total_methods)>>),
                            LogRec("INFO", <<"Total Fields:", ToStr(st.total_fields)>>),
                            LogRec("INFO", <<"Unique Packages:", ToStr(st.unique_packages)>>) >>
                      \o Banner("STEP 2: Extracting and Structuring Knowledge")
                /\ pc' = "structure"
                /\ sk_pc' = "idle"
                /\ sk_input' = parsed_files
                /\ UNCHANGED <<exit_code, main_exc>>
    /\ UNCHANGED <<project_overview, class_summaries, sk_idx, report, first_call>>
    /\ UNCHANGED <<tree, scan_pc, all_files, java_files, scan_idx, parsed_files, parse_calls,
                   scan_exc>>
    /\ UNCHANGED <<config, artifact>>
    /\ UNCHANGED <<llmVars, storeVars, cloneVars>>

\* structure_knowledge has returned: the call of store_knowledge on its result.
MainStructured ==
    /\ pc = "structure"
    /\ sk_pc = "done"
    /\ StoreEnter(Banner("STEP 3: Storing in Vector Database"))
    /\ store_input' = report[1]
    /\ pc' = "store"
    /\ UNCHANGED <<exit_code, config, artifact, main_exc>>
    /\ UNCHANGED <<llmVars, scanVars, structVars, cloneVars>>

MainStored_DespiteFailure ==
    /\ pc = "store"
    /\ store_pc \in {"done", "raised"}
    /\ \E ok \in BOOLEAN :
        IF ok
        THEN /\ log' = log \o Banner("STEP 4: Saving Results")
             /\ artifact' = PartialArtifact
             /\ pc' = "dump"
             /\ UNCHANGED <<exit_code, main_exc>>
        ELSE /\ Exit(Banner("STEP 4: Saving Results"), Exc("OSError", <<"Permission denied">>))
             /\ UNCHANGED artifact
    /\ UNCHANGED config
    /\ UNCHANGED <<llmVars, scanVars, structVars, storeVars, cloneVars>>

\* store_knowledge has returned: open(output_path, "w") creates or truncates
\* the file, or raises OSError.
MainStored ==
    /\ pc = "store"
    /\ store_pc = "done"
    /\ \E ok \in BOOLEAN :
        IF ok
        THEN /\ log' = log \o Banner("STEP 4: Saving Results")
             /\ artifact' = PartialArtifact
             /\ pc' = "dump"
             /\ UNCHANGED <<exit_code, main_exc>>
        ELSE /\ Exit(Banner("STEP 4: Saving Results"), Exc("OSError", <<"Permission denied">>))
             /\ UNCHANGED artifact
    /\ UNCHANGED config
    /\ UNCHANGED <<llmVars, scanVars, structVars, storeVars, cloneVars>>

\* json.dump(structured_knowledge, f) and the end of the with block: the text
\* is written piece by piece and the file closed, or a write raises OSError
\* and the file is closed with what was written.
MainDump ==
    /\ pc = "dump"
    /\ \E ok \in BOOLEAN :
        IF ok
        THEN /\ artifact' = CompleteArtifact(report[1])
             /\ pc' = "summary"
             /\ UNCHANGED <<log, exit_code, main_exc>>
        ELSE /\ Exit(<<>>, Exc("OSError", <<"No space left on device">>))
             /\ UNCHANGED artifact
    /\ UNCHANGED config
    /\ UNCHANGED <<llmVars, scanVars, structVars, storeVars, cloneVars>>

\* "EXTRACTION COMPLETE" and `return structured_knowledge`: the process ends
\* with exit code 0.
MainSummary ==
    /\ pc = "summary"
    /\ log' = log \o Banner("EXTRACTION COMPLETE!")
                  \o << LogRec("INFO", <<"Results saved to:", "structured_knowledge.json">>),
                        LogRec("INFO", <<"Processed Classes:",
                                         ToStr(report[1].metadata.total_classes)>>),
                        LogRec("INFO", <<"Processed Interfaces:",
                                         ToStr(report[1].metadata.total_interfaces)>>) >>
    /\ pc' = "exited"
    /\ exit_code' = Some(0)
    /\ UNCHANGED <<config, artifact, main_exc>>
    /\ UNCHANGED <<llmVars, scanVars, structVars, storeVars, cloneVars>>

\* An exception left scan(), structure_knowledge() or store_knowledge() and so
\* main's try body.
MainRaised ==
    /\ \/ pc = "scan" /\ scan_pc = "raised"
             /\ Exit(<<>>, Exc(scan_exc[1], <<"scan failed">>))
       \/ pc = "structure" /\ sk_pc = "raised"
             /\ Exit(<<>>, KeyboardInterrupt)
       \/ pc = "store" /\ store_pc = "raised"
             /\ Exit(<<>>, Exc("RuntimeError", <<"add_texts failed">>))
    /\ UNCHANGED <<config, artifact>>
    /\ UNCHANGED <<llmVars, scanVars, structVars, storeVars, cloneVars>>

\* The user interrupts (Ctrl-C) while main runs: KeyboardInterrupt is raised at
\* the statement being executed, leaves whatever call is in progress (no
\* except clause of the components catches it) and reaches main's handler.
MainInterrupt ==
    /\ pc # "exited"
    /\ Exit(<<>>, KeyboardInterrupt)
    /\ llm_pc' = IF llm_pc = "retry" THEN "raised" ELSE llm_pc
    /\ scan_pc' = IF scan_pc \in {"idle", "parsing"} THEN "raised" ELSE scan_pc
    /\ scan_exc' = IF scan_pc \in {"idle", "parsing"} THEN Some("KeyboardInterrupt") ELSE scan_exc
    /\ sk_pc' = IF sk_pc \in {"idle", "overview", "classes"} THEN "raised" ELSE sk_pc
    /\ store_pc' = IF store_pc \in {"overview", "classes", "interfaces"} THEN "raised" ELSE store_pc
    /\ UNCHANGED <<invocations, llm_op, llm_subject, attempt, responses, call_result,
                   llm_ret, log_mark, requests>>
    /\ UNCHANGED <<tree, all_files, java_files, scan_idx, parsed_files, parse_calls, stats>>
    /\ UNCHANGED <<sk_input, project_overview, class_summaries, sk_idx, report, first_call>>
    /\ UNCHANGED <<index, store_input, store_i, index_mark, failed_writes, store_calls>>
    /\ UNCHANGED <<cloneVars, config, artifact>>

\* The configurations under which main reaches the call of clone_repository.
CloneConfigs == {c \in Configs : c.api_key # "" /\ c.repo_url # EmptyUrl}

\* `if __name__ == "__main__": main()` once more: a new process, with its own
\* environment and log, on the directory the earlier runs left.
NextRun ==
    /\ pc \in {"init", "exited"}
    /\ runs < MaxRuns
    /\ runs' = runs + 1
    /\ config' \in CloneConfigs
    /\ log' = <<>>
    /\ pc' = "clone"
    /\ clone_pc' = "idle"
    /\ clone_exc' = None
    /\ exit_code' = None
    /\ main_exc' = None
    /\ UNCHANGED <<target_dir, artifact>>
    /\ UNCHANGED notClone

NoConfig == [api_key |-> "", repo_url |-> EmptyUrl, git_token |-> "", force |-> FALSE]

\* main's own state at the start of a process.
MainStart ==
    /\ exit_code = None
    /\ artifact = NoArtifact
    /\ main_exc = None

\* main is not run.
MainIdle == pc = "off" /\ config = NoConfig /\ MainStart

(***************************************************************************)
(* Specifications                                                          *)
(***************************************************************************)

\* The summarizer alone: a sequence of extract_* calls.
InitLLM ==
    log = <<>> /\ LLMIdle /\ ScanIdle /\ StructIdle /\ StoreIdle /\ CloneIdle /\ MainIdle

NextLLM ==
    \/ ExtractClassSummary
    \/ ExtractProjectOverview
    \/ LLMAttempt

SpecLLM == InitLLM /\ [][NextLLM]_vars

\* The scanner alone: one scan() of a tree, and get_statistics on its result.
InitScan ==
    /\ log = <<>>
    /\ LLMIdle
    /\ tree \in Trees
    /\ ScanStart
    /\ StructIdle
    /\ StoreIdle
    /\ CloneIdle
    /\ MainIdle

NextScan ==
    \/ ScanWalk
    \/ ScanParse
    \/ ScanReturn
    \/ ScanStatistics

SpecScan == InitScan /\ [][NextScan]_vars

\* The structurer with the summarizer: one structure_knowledge call.
InitStruct ==
    /\ log = <<>>
    /\ LLMIdle
    /\ ScanIdle
    /\ sk_input \in StructInputs
    /\ StructStart
    /\ StoreIdle
    /\ CloneIdle
    /\ MainIdle

NextStruct ==
    \/ SKStart
    \/ LLMAttempt
    \/ SKOverviewReturned
    \/ SKClassRequest
    \/ SKClassReturned
    \/ SKFinish
    \/ SKInterrupted

SpecStruct == InitStruct /\ [][NextStruct]_vars

\* The same call with a backend whose every invocation comes back (with an
\* answer or an exception), so that the retry loop is never stuck in a call.
SpecStructFair == SpecStruct /\ WF_vars(LLMAttempt)

\* structure_knowledge called twice on the same input, with a deterministic
\* backend.
NextRerun ==
    \/ SKStart
    \/ LLMAttemptReplayed
    \/ SKOverviewReturned
    \/ SKClassRequest
    \/ SKClassReturned
    \/ SKFinish
    \/ SKInterrupted
    \/ SKAgain

SpecRerun == InitStruct /\ [][NextRerun]_vars

\* The vector store writer alone: store_knowledge calls on one report.
InitStore ==
    /\ log = <<>>
    /\ LLMIdle
    /\ ScanIdle
    /\ StructIdle
    /\ store_input \in StoreInputs
    /\ StoreStart
    /\ CloneIdle
    /\ MainIdle

NextStore ==
    \/ StoreBegin
    \/ StoreOverview
    \/ StoreClass
    \/ StoreClassesEnd
    \/ StoreInterface
    \/ StoreEnd

SpecStore == InitStore /\ [][NextStore]_vars

\* The cloner with main's step 0, over successive runs on one target directory.
InitClone ==
    /\ log = <<>>
    /\ LLMIdle
    /\ ScanIdle
    /\ StructIdle
    /\ StoreIdle
    /\ target_dir \in {AbsentDir, PlainDir}
    /\ CloneStart
    /\ runs = 1
    /\ pc = "clone"
    /\ config \in CloneConfigs
    /\ MainStart

NextClone ==
    \/ MainClone
    \/ MainRepoInfo
    \/ MainCloneFailed
    \/ NextRun

SpecClone == InitClone /\ [][NextClone]_vars

\* The pipeline driver: one run of main.
Init ==
    /\ log = <<>>
    /\ LLMIdle
    /\ tree = <<>>
    /\ scan_pc = "off"
    /\ ScanFresh
    /\ sk_input = <<>>
    /\ sk_pc = "off"
    /\ StructFresh
    /\ StoreIdle
    /\ target_dir \in {AbsentDir, PlainDir, RepoDir(UrlGithub, UrlGithub)}
    /\ CloneStart
    /\ runs = 1
    /\ pc = "validate"
    /\ config \in Configs
    /\ exit_code = None
    /\ artifact \in {NoArtifact, OldArtifact}
    /\ main_exc = None

Next ==
    \/ MainValidate
    \/ MainClone
    \/ MainRepoInfo
    \/ MainCloneFailed
    \/ MainUseExisting
    \/ MainInit
    \/ ScanWalk
    \/ ScanParse
    \/ ScanReturn
    \/ MainScanned
    \/ SKStart
    \/ LLMAttempt
    \/ SKOverviewReturned
    \/ SKClassRequest
    \/ SKClassReturned
    \/ SKFinish
    \/ SKInterrupted
    \/ MainStructured
    \/ StoreOverview
    \/ StoreClass
    \/ StoreClassesEnd
    \/ StoreInterface
    \/ StoreEnd
    \/ MainStored
    \/ MainDump
    \/ MainSummary
    \/ MainRaised
    \/ MainInterrupt

Spec == Init /\ [][Next]_vars

(***************************************************************************)
(* Claims                                                                  *)
(***************************************************************************)

\* --- the summarizer's claims ---

AllFailed(rs) == \A i \in 1..Len(rs) : rs[i].kind = "error"

\* The log records written since the current request began.
RequestLog == SubSeq(log, log_mark + 1, Len(log))

LevelCount(l, level) == Cardinality({i \in 1..Len(l) : l[i].level = level})

\* C1: with a backend that fails on every call, extract_class_summary returns
\* exactly "Summary unavailable" after exactly MAX_RETRIES invocations, with one
\* warning per attempt (carrying the attempt index) followed by one error, and
\* the failures never reach the caller as an exception.
C1_AlwaysFailingBackend ==
    /\ (llm_pc = "returned" /\ llm_op = "class" /\ AllFailed(responses)) =>
        /\ llm_ret = "Summary unavailable"
        /\ Len(responses) = MAX_RETRIES
        /\ Len(RequestLog) = MAX_RETRIES + 1
        /\ \A i \in 1..MAX_RETRIES :
               RequestLog[i] = LogRec("WARNING", <<"LLM call attempt", ToStr(i), "failed">>)
        /\ RequestLog[MAX_RETRIES + 1].level = "ERROR"
        /\ LevelCount(RequestLog, "ERROR") = 1
    /\ (llm_pc = "raised" => ~AllFailed(responses))
    /\ Len(responses) <= MAX_RETRIES

C1_Witness ==
    /\ llm_pc = "returned"
    /\ llm_op = "class"
    /\ Len(responses) = MAX_RETRIES
    /\ AllFailed(responses)
    /\ llm_ret = "Summary unavailable"

\* C2: extract_class_summary and extract_project_overview return the fallback
\* string if and only if every attempt failed; when an attempt succeeded the
\* value returned is exactly the text the backend produced on that attempt.
C2_FallbackIffAllFailed ==
    llm_pc = "returned" =>
        /\ (llm_ret = Fallback(llm_op)) <=> AllFailed(responses)
        /\ ~AllFailed(responses) => llm_ret = responses[Len(responses)].text

\* --- the scanner's claims ---

Malformed(src) == JavalangParse(src) # None

\* C3: for every selected file whose text is malformed Java source (the grammar
\* parser raises on it), parse_java_file does not raise and returns an empty
\* ParsedFile; the scan is not aborted and, when it returns, has parsed every
\* selected file.
C3_MalformedFileNeverAborts ==
    /\ \A i \in 1..Len(parse_calls) :
           Malformed(FileAt(parse_calls[i].path).src) =>
               /\ parse_calls[i].raised = None
               /\ parse_calls[i].result = EmptyParsedFile(PathOf(parse_calls[i].path))
    /\ scan_pc # "raised"
    /\ scan_pc = "returned" => Len(parse_calls) = Len(java_files)

\* The name of the file at position i of the tree ends in ".java".
EndsInExtension(i) == tree[i].ext = ".java"

\* What parsing the file at position i of the tree yields.
ParseOf(i) == parse_java_file(PathOf(i), tree[i].src).result

Yields(i) == ParseOf(i).classes # <<>> \/ ParseOf(i).interfaces # <<>>

\* The positions of the files scan is to keep, in enumeration order.
KeptPositions ==
    TruePositions([i \in 1..Len(tree) |-> EndsInExtension(i) /\ Yields(i)], 1)

\* C11: when scan returns, its result holds exactly the ParsedFile of each file
\* whose name ends in a configured extension and whose parse yields a class or
\* an interface, in enumeration order; the selected files are those ending in
\* the extension, and the selected files missing from the result are those
\* whose parse yielded nothing; with no matching file scan returns the empty
\* sequence and does not raise.
C11_ScanKeepsExactlyTheYieldingFiles ==
    /\ scan_pc = "returned" =>
        /\ parsed_files = [k \in 1..Len(KeptPositions) |-> ParseOf(KeptPositions[k])]
        /\ Len(java_files) = Cardinality({i \in 1..Len(tree) : EndsInExtension(i)})
        /\ Len(java_files) - Len(parsed_files) =
               Cardinality({i \in 1..Len(tree) : EndsInExtension(i) /\ ~Yields(i)})
    /\ (\A i \in 1..Len(tree) : ~EndsInExtension(i)) =>
        /\ scan_pc # "raised"
        /\ scan_pc = "returned" => parsed_files = <<>>

\* A scan has returned after passing over a file of another extension, a
\* selected file that yields nothing and a selected file that it kept.
C11_Witness ==
    /\ scan_pc = "returned"
    /\ Len(tree) > Len(java_files)
    /\ Len(java_files) > Len(parsed_files)
    /\ Len(parsed_files) > 0

\* The classes of a sequence of parsed files, file after file.
ClassesOf(pfs) == Flatten([i \in 1..Len(pfs) |-> pfs[i].classes])

\* C15: get_statistics(parsed_files) returns total_methods and total_fields
\* equal to the sums of method_count and field_count over all classes,
\* total_classes and total_interfaces equal to the flattened counts,
\* unique_packages equal to the number of distinct non-null package strings
\* (and packages that set), and leaves parsed_files as scan returned it.
C15_StatisticsAreSums ==
    stats # None =>
        LET st == stats[1]
            cs == ClassesOf(parsed_files)
            pkgs == {parsed_files[i].package[1] :
                        i \in {j \in 1..Len(parsed_files) : parsed_files[j].package # None}}
        IN  /\ st.total_files = Len(parsed_files)
            /\ st.total_classes = Len(cs)
            /\ st.total_interfaces =
                   SumOver([i \in 1..Len(parsed_files) |-> Len(parsed_files[i].interfaces)],
                           Len(parsed_files))
            /\ st.total_methods = SumOver([i \in 1..Len(cs) |-> cs[i].method_count], Len(cs))
            /\ st.total_fields = SumOver([i \in 1..Len(cs) |-> cs[i].field_count], Len(cs))
            /\ st.unique_packages = Cardinality(pkgs)
            /\ st.packages = pkgs
            /\ parsed_files = [k \in 1..Len(KeptPositions) |-> ParseOf(KeptPositions[k])]

\* Statistics over three parsed files: two share a package, one has none; a
\* class has a method and a field, an interface has a method.
C15_Witness ==
    /\ stats # None
    /\ stats[1].total_files = 3
    /\ stats[1].unique_packages = 1
    /\ stats[1].total_fields > 0
    /\ stats[1].total_methods > 0
    /\ stats[1].total_interfaces > 0

RECURSIVE IfCount(_)
\* The number of `if` statements in the source of a node.
IfCount(n) ==
    CASE n.node = "IfStatement" -> 1 + IfCount(n.condition) + IfCount(n.then_statement)
      [] n.node = "BinaryOperation" -> IfCount(n.operandl) + IfCount(n.operandr)
      [] n.node = "StatementExpression" -> IfCount(n.expression)
      [] OTHER -> 0

RECURSIVE AndCount(_)
\* The number of `&&` operators in the source of a node.
AndCount(n) ==
    CASE n.node = "IfStatement" -> AndCount(n.condition) + AndCount(n.then_statement)
      [] n.node = "BinaryOperation" ->
            (IF n.operator = "&&" THEN 1 ELSE 0) + AndCount(n.operandl) + AndCount(n.operandr)
      [] n.node = "StatementExpression" -> AndCount(n.expression)
      [] OTHER -> 0

\* The method declarations of the c-th class of a source, as parse_java_file
\* lists them.
MethodNodes(src, c) == MethodsUnder(src.decls, SelectIdx(src.decls, IsClassDecl)[c])

\* C16: the complexity recorded for a method is never less than 1, is exactly
\* 1 for a method with no body or an empty body, and is exactly 3 for a body
\* that contains exactly one `if` and one `&&` (and no other decision keyword).
C16_ComplexityCountsKeywords ==
    \A i \in 1..Len(parse_calls) :
        LET src == FileAt(parse_calls[i].path).src
            res == parse_calls[i].result
        IN  \A c \in 1..Len(res.classes) :
                \A k \in 1..Len(res.classes[c].methods) :
                    LET m == MethodNodes(src, c)[k]
                        cx == res.classes[c].methods[k].complexity
                    IN  /\ cx >= 1
                        /\ (m.body = None \/ m.body[1] = <<>>) => cx = 1
                        /\ (/\ m.body # None
                            /\ Len(m.body[1]) = 1
                            /\ IfCount(m.body[1][1]) = 1
                            /\ AndCount(m.body[1][1]) = 1) => cx = 3

\* --- the structurer's claims ---

RECURSIVE FirstDeclaring(_, _, _)
\* The position of the first parsed file declaring class_name (0 if none).
FirstDeclaring(class_name, pfs, i) ==
    IF i > Len(pfs) THEN 0
    ELSE IF DeclaresClass(pfs[i], class_name) THEN i
    ELSE FirstDeclaring(class_name, pfs, i + 1)

\* C7: for every class in the report, package is a string: the package of the
\* first parsed file whose class list contains a class of that name, and the
\* string "N/A" when it cannot be resolved, also when that file declares no
\* package.
C7_PackageIsStringOrNA ==
    \A i \in 1..Len(class_summaries) :
        LET first == FirstDeclaring(class_summaries[i].name, sk_input, 1)
        IN  class_summaries[i].package =
                IF first = 0 \/ sk_input[first].package = None
                THEN Some("N/A")
                ELSE sk_input[first].package

\* The requests issued so far, in order: a request is issued by the first
\* invocation (attempt 0) call_with_retry makes for it.
Issued ==
    LET first == TruePositions([i \in 1..Len(invocations) |-> invocations[i].attempt = 0], 1)
    IN  [k \in 1..Len(first) |->
            [op |-> invocations[first[k]].op, subject |-> invocations[first[k]].subject]]

\* The requests one structure_knowledge call is to issue, in order.
ToIssue ==
    <<[op |-> "overview", subject |-> ""]>>
    \o [i \in 1..Len(AllClasses(sk_input)) |->
            [op |-> "class", subject |-> AllClasses(sk_input)[i].name]]

\* C13: in a structure_knowledge call the requests issued are at every moment a
\* prefix of: the project overview, then one class summary per class in
\* flattened input order; when the call returns they are exactly that sequence
\* (so the overview is requested once and first, and nothing is requested for
\* an interface).
C13_RequestOrder ==
    /\ Len(Issued) <= Len(ToIssue)
    /\ Issued = SubSeq(ToIssue, 1, Len(Issued))
    /\ sk_pc = "done" => Issued = ToIssue

\* A call over two classes and an interface has returned, after a retry.
C13_Witness ==
    /\ sk_pc = "done"
    /\ Len(AllClasses(sk_input)) = 2
    /\ Len(AllInterfaces(sk_input)) > 0
    /\ Len(invocations) > Len(ToIssue)
    /\ Issued = ToIssue

\* C14: in the report structure_knowledge returns, metadata.total_classes is
\* the number of class summaries (one per class of the input),
\* metadata.total_interfaces the number of interfaces, metadata.total_methods
\* the sum of method_count over the classes (interface methods not counted),
\* and metadata.packages the distinct non-null package names of the parsed
\* files.
C14_MetadataTotals ==
    (sk_pc = "done" /\ report # None) =>
        LET k == report[1]
            m == k.metadata
        IN  /\ m.total_classes = Len(k.classes)
            /\ m.total_classes =
                   SumOver([i \in 1..Len(sk_input) |-> Len(sk_input[i].classes)], Len(sk_input))
            /\ m.total_interfaces = Len(k.interfaces)
            /\ m.total_interfaces =
                   SumOver([i \in 1..Len(sk_input) |-> Len(sk_input[i].interfaces)], Len(sk_input))
            /\ m.total_methods =
                   SumOver([i \in 1..Len(k.classes) |-> k.classes[i].method_count],
                           Len(k.classes))
            /\ m.packages =
                   {sk_input[i].package[1] :
                        i \in {j \in 1..Len(sk_input) : sk_input[j].package # None}}

\* A report over a class with a method, an interface with a method, and two
\* files of which one has no package.
C14_Witness ==
    /\ sk_pc = "done"
    /\ report # None
    /\ report[1].metadata.total_methods > 0
    /\ report[1].metadata.total_interfaces > 0
    /\ Len(sk_input) = 2
    /\ Cardinality(report[1].metadata.packages) = 1

\* A report without its extraction date.
Undated(k) == [k EXCEPT !.metadata.extraction_date = ""]

\* C17: when a second structure_knowledge call on the same parsed input, with
\* a backend that behaves as in the first call, has returned, its report equals
\* the first call's in every field except metadata.extraction_date
\* (metadata.packages being compared as a set).
C17_RerunReproducesReport ==
    (first_call # None /\ sk_pc = "done") =>
        Undated(report[1]) = Undated(first_call[1].report)

\* Both calls have returned, over two classes, at different times.
C17_Witness ==
    /\ first_call # None
    /\ sk_pc = "done"
    /\ Len(report[1].classes) = 2
    /\ report[1].metadata.extraction_date # first_call[1].report.metadata.extraction_date
    /\ Len(invocations) = 2 * first_call[1].invocations

\* --- the vector store's claims ---

\* The entries one store_knowledge call is to write, in order; position 1 is
\* the overview's (absent from the index when the overview is empty).
ExpectedEntries(k) ==
    <<OverviewEntry(k.project_overview)>>
    \o [i \in 1..Len(k.classes) |-> ClassEntry(k.classes[i])]
    \o [i \in 1..Len(k.interfaces) |-> InterfaceEntry(k.interfaces[i])]

\* The entries the current store_knowledge call has added to the index.
WrittenByCall == SeqToSet(SubSeq(index, index_mark + 1, Len(index)))

\* C4: when store_knowledge has ended (returned or raised), every entry whose
\* own write did not fail has been written to the index.
C4_WritesAreIndependent ==
    store_pc \in {"done", "raised"} =>
        \A j \in 1..Len(ExpectedEntries(store_input)) :
            (j \notin failed_writes /\ ~(j = 1 /\ store_input.project_overview = ""))
                => ExpectedEntries(store_input)[j] \in WrittenByCall

\* The entries the current store_knowledge call has added, in order.
Added == SubSeq(index, index_mark + 1, Len(index))

\* C12: a store_knowledge call that completes has added to the index one entry
\* for the project overview if it is non-empty (none if empty), then one entry
\* per class, then one per interface, and nothing else; each entry's metadata
\* carries its kind and, for classes and interfaces, the name.
C12_OneEntryPerItem ==
    store_pc = "done" =>
        LET k == store_input
            o == IF k.project_overview # "" THEN 1 ELSE 0
            nc == Len(k.classes)
            ni == Len(k.interfaces)
        IN  /\ Len(Added) = o + nc + ni
            /\ o = 1 =>
                   /\ Added[1].metadata = [type |-> "project_overview"]
                   /\ Added[1].text = << <<k.project_overview>> >>
            /\ \A i \in 1..nc :
                   /\ Added[o + i].metadata.type = "class"
                   /\ Added[o + i].metadata.class_name = k.classes[i].name
            /\ \A i \in 1..ni :
                   /\ Added[o + nc + i].metadata.type = "interface"
                   /\ Added[o + nc + i].metadata.interface_name = k.interfaces[i].name

\* A call on a report with an overview, a class and an interface has completed.
C12_Witness ==
    /\ store_pc = "done"
    /\ store_input.project_overview # ""
    /\ Len(store_input.classes) > 0
    /\ Len(store_input.interfaces) > 0
    /\ Len(Added) = 1 + Len(store_input.classes) + Len(store_input.interfaces)

\* The number of entries a completed store_knowledge call writes for k.
EntryCount(k) ==
    (IF k.project_overview # "" THEN 1 ELSE 0) + Len(k.classes) + Len(k.interfaces)

\* C18: every step leaves the entries already in the index in place and
\* unchanged (it can only append), and a completed store_knowledge call has
\* added a full set of entries after those the index held when it began, also
\* when an earlier call already wrote the same entries.
C18_IndexIsAppendOnly ==
    /\ [][/\ Len(index') >= Len(index)
          /\ SubSeq(index', 1, Len(index)) = index]_vars
    /\ [](store_pc = "done" => Len(index) = index_mark + EntryCount(store_input))

\* Two calls on the same report have completed, and the index holds two full
\* sets of entries.
C18_Witness ==
    /\ store_calls = 2
    /\ store_pc = "done"
    /\ index_mark > 0
    /\ index_mark = EntryCount(store_input)
    /\ Len(index) = 2 * index_mark
    /\ SubSeq(index, 1, index_mark) = SubSeq(index, index_mark + 1, Len(index))

\* --- the cloner's claims ---

\* C6: when a clone fails and a git token is configured, no record logged
\* during the run (by clone_repository or by main's clone error handler)
\* contains the token.
C6_NoTokenInDiagnostics ==
    (clone_pc = "raised" /\ config.git_token # "") =>
        \A i \in 1..Len(log) : ~Contains(log[i].text, config.git_token)

\* C8: over any sequence of runs, whenever clone_repository(repo_url, force)
\* returns, the target directory holds a working copy of the repository named
\* by repo_url.
C8_ReturnedDirIsRequestedRepo ==
    clone_pc = "returned" =>
        /\ target_dir.kind = "repo"
        /\ target_dir.repo = config.repo_url

\* --- the driver's claims ---

\* C5: once a user interrupt has ended the run, no index write and no JSON
\* write can follow, and the output artifact is either absent or a complete
\* report, never a partially written file.
C5_InterruptLeavesNoPartialArtifact ==
    (pc = "exited" /\ main_exc = Some(KeyboardInterrupt)) =>
        /\ ~ENABLED (StoreOverview \/ StoreClass \/ StoreInterface \/ MainStored \/ MainDump)
        /\ artifact.state \in {"absent", "complete"}

\* The two ways Config.validate fails.
ApiKeyAbsent == config.api_key = ""
NoRepository == config.repo_url = EmptyUrl /\ target_dir.kind = "absent"

\* C9: when main has ended, its exit code is 1 if validation failed, the clone
\* failed, the scan yielded zero parsed files, the user interrupted or any
\* other exception left a step; it is 0 only when the clone (if a URL is
\* configured), the scan, the structuring, every index write and the JSON
\* write completed.
C9_ExitCodes ==
    pc = "exited" =>
        /\ exit_code \in {Some(0), Some(1)}
        /\ (ApiKeyAbsent \/ NoRepository) => exit_code = Some(1)
        /\ clone_exc # None => exit_code = Some(1)
        /\ (scan_pc = "returned" /\ parsed_files = <<>>) => exit_code = Some(1)
        /\ main_exc # None => exit_code = Some(1)
        /\ exit_code = Some(0) =>
            /\ config.repo_url # EmptyUrl => clone_pc = "done"
            /\ scan_pc = "returned"
            /\ sk_pc = "done"
            /\ report # None
            /\ store_pc = "done"
            /\ failed_writes = {}
            /\ artifact = CompleteArtifact(report[1])

\* The scan found nothing to parse and main left through sys.exit(1).
C9_Witness ==
    /\ pc = "exited"
    /\ scan_pc = "returned"
    /\ parsed_files = <<>>
    /\ main_exc = Some(SystemExit)
    /\ exit_code = Some(1)

\* C10: when Config.validate fails (API key absent, or no URL and nothing at
\* REPO_PATH), main goes from validation straight to its exit, with a nonzero
\* code, and no clone, scan, backend call, index write or JSON write is made.
C10_InvalidConfigDoesNoWork ==
    (ApiKeyAbsent \/ NoRepository) =>
        /\ pc \in {"validate", "exited"}
        /\ pc = "exited" => (exit_code # None /\ exit_code # Some(0))
        /\ clone_pc = "idle"
        /\ scan_pc = "off"
        /\ invocations = <<>>
        /\ store_calls = 0 /\ index = <<>> /\ failed_writes = {}
        /\ ~artifact.by_run

\* Validation failed for want of a repository, and the process has exited.
C10_Witness ==
    /\ ~ApiKeyAbsent
    /\ NoRepository
    /\ pc = "exited"
    /\ main_exc # None
    /\ main_exc[1].class = "ValueError"
    /\ exit_code = Some(1)

\* C19: the driver's steps happen in the order validate, clone (only when a
\* URL is configured), scan, structure, index, JSON write: the clone is
\* attempted only under a valid configuration with a URL; the scan starts only
\* after the clone (if any) is done; no backend invocation is made before scan
\* has returned; no index write is attempted before structure_knowledge has
\* returned its report; and the JSON file is touched only after store_knowledge
\* has completed with every index write of the run successful, after which
\* nothing but the summary follows.
C19_StepOrder ==
    /\ clone_pc # "idle" =>
        /\ config.repo_url # EmptyUrl
        /\ ~ApiKeyAbsent
    /\ scan_pc # "off" =>
        /\ config.repo_url # EmptyUrl => clone_pc = "done"
        /\ config.repo_url = EmptyUrl => clone_pc = "idle"
    /\ invocations # <<>> => (scan_pc = "returned" /\ parsed_files # <<>>)
    /\ (store_calls > 0 \/ index # <<>> \/ failed_writes # {}) =>
        /\ sk_pc = "done"
        /\ report # None
        /\ store_input = report[1]
    /\ artifact.by_run =>
        /\ store_pc = "done"
        /\ failed_writes = {}
        /\ Len(index) = EntryCount(report[1])
        /\ pc \in {"dump", "summary", "exited"}
    /\ (artifact.by_run /\ artifact.state = "complete") =>
        /\ artifact.content = report
        /\ pc \in {"summary", "exited"}

\* A run with a clone has gone through every step and written the report.
C19_Witness ==
    /\ pc = "exited"
    /\ exit_code = Some(0)
    /\ clone_pc = "done"
    /\ Len(invocations) > 2
    /\ Len(index) = 3
    /\ artifact = CompleteArtifact(report[1])

\* --- the retry loop's bounds ---

Succeeded(rs) == \E i \in 1..Len(rs) : rs[i].kind = "content"

\* C20: within one request a successful backend invocation is the last one
\* (the call has returned with its text), a request makes at most MAX_RETRIES
\* invocations, the log of a request with a successful attempt holds no ERROR
\* record, a structure_knowledge call over C classes makes at most
\* MAX_RETRIES * (1 + C) invocations, and every call_with_retry that has
\* started comes to an end.
C20_RetryStopsAtSuccess ==
    /\ [](/\ \A i \in 1..Len(responses) :
                responses[i].kind = "content" =>
                    /\ i = Len(responses)
                    /\ llm_pc # "retry"
                    /\ call_result = Some(responses[i].text)
          /\ \A i \in 1..(Len(invocations) - 1) :
                invocations[i].out.kind = "content" => invocations[i + 1].attempt = 0
          /\ Len(responses) <= MAX_RETRIES
          /\ \A i \in 1..Len(invocations) : invocations[i].attempt < MAX_RETRIES
          /\ Succeeded(responses) => LevelCount(RequestLog, "ERROR") = 0
          /\ Len(invocations) <= MAX_RETRIES * (1 + Len(ClassesOf(sk_input))))
    /\ (llm_pc = "retry") ~> (llm_pc # "retry")

\* A call over two classes has returned after a request that failed
\* MAX_RETRIES times and a request that succeeded on its last attempt.
C20_Witness ==
    /\ sk_pc = "done"
    /\ Len(ClassesOf(sk_input)) = 2
    /\ \E i, j \in 1..Len(invocations) :
        /\ invocations[i].attempt = MAX_RETRIES - 1
        /\ invocations[i].out.kind = "error"
        /\ invocations[j].attempt = MAX_RETRIES - 1
        /\ invocations[j].out.kind = "content"
    /\ Succeeded(responses)
    /\ LevelCount(log, "ERROR") = 1

\* --- the attribution of methods ---

\* The number of method declarations in a source file.
DeclaredMethods(src) ==
    SumOver([i \in 1..Len(src.decls) |-> Len(src.decls[i].methods)], Len(src.decls))

\* The sum of method_count over the classes and interfaces of a parsed file.
AttributedMethods(pf) ==
    SumOver([i \in 1..Len(pf.classes) |-> pf.classes[i].method_count], Len(pf.classes))
    + SumOver([i \in 1..Len(pf.interfaces) |-> pf.interfaces[i].method_count],
              Len(pf.interfaces))

\* The names of the methods declared directly in the c-th declaration of a kind.
OwnMethodNames(src, kind, c) ==
    LET own == [i \in 1..Len(src.decls) |-> src.decls[i].kind = kind]
        d == src.decls[TruePositions(own, 1)[c]]
    IN  [m \in 1..Len(d.methods) |-> d.methods[m].name]

\* C21: in every parsed file that scan keeps, each class and each interface
\* holds exactly the methods declared directly in it, so the method counts of
\* the file's classes and interfaces add up to the number of method
\* declarations in the file, nested classes included.
C21_MethodsAttributedOnce ==
    \A k \in 1..Len(parsed_files) :
        LET pf == parsed_files[k]
            src == tree[KeptPositions[k]].src
        IN  /\ AttributedMethods(pf) = DeclaredMethods(src)
            /\ \A c \in 1..Len(pf.classes) :
                   [m \in 1..Len(pf.classes[c].methods) |-> pf.classes[c].methods[m].name]
                       = OwnMethodNames(src, "class", c)
            /\ \A c \in 1..Len(pf.interfaces) :
                   [m \in 1..Len(pf.interfaces[c].methods) |-> pf.interfaces[c].methods[m].name]
                       = OwnMethodNames(src, "interface", c)

\* --- the target directory after a failed clone ---

\* C22: a clone_repository call that raises leaves the target directory as it
\* was before the call; in particular a working copy that was there is still
\* there after a forced re-clone that failed.
C22_FailedCloneKeepsDirectory ==
    [][(clone_pc = "idle" /\ clone_pc' = "raised") => target_dir' = target_dir]_vars

====
